---- MODULE Spec2Model ----
(***************************************************************************)
(* The consume stream bridge of proximo: consumeServer.Consume and its     *)
(* three tasks (reader, writer, handler invoker) run under one gogroup,    *)
(* together with the client / transport side of the stream and             *)
(* the backend handler they talk to.                                       *)
(***************************************************************************)
EXTENDS Integers, Sequences, FiniteSets, TLC

\* Bounds of the model.
MaxEnv == 3      \* envelopes the client sends in one session
MaxMsg == 2      \* messages the backend handler produces in one session
MaxSess == 3     \* connections the server accepts while it serves

(***************************************************************************)
(* Errors.  An error is a record of its gRPC status code ("raw" for an     *)
(* error that is no status error) and its message, a sequence of words.    *)
(***************************************************************************)
NoErr == [code |-> "OK", msg |-> <<>>]

StatusError(c, m) == [code |-> c, msg |-> m]

errStartedTwice == StatusError("InvalidArgument", <<"consumption", "already", "started">>)
errInvalidConfirm == StatusError("InvalidArgument", <<"invalid", "confirmation">>)
errInvalidRequest ==
    StatusError("InvalidArgument",
                <<"invalid", "consumer", "request", "-", "this", "is", "possibly", "a",
                  "bug", "in", "your", "client", "library">>)

\* context.Canceled and context.DeadlineExceeded
ctxCanceled == [code |-> "raw", msg |-> <<"context", "canceled">>]
ctxDeadline == [code |-> "raw", msg |-> <<"context", "deadline", "exceeded">>]

\* io.EOF
EOF == [code |-> "raw", msg |-> <<"EOF">>]
\* a failure of the transport that is neither end-of-stream nor a context error
errTransport == StatusError("Unavailable", <<"transport", "is", "closing">>)
\* a failure of the backend, returned by HandleConsume
errBackend == [code |-> "raw", msg |-> <<"backend", "failure">>]

\* err.Error(): a status error prints its code and description, any other its message
ErrorText(e) ==
    IF e.code = "raw" THEN e.msg
    ELSE <<"rpc", "error:", "code", "=", e.code, "desc", "=">> \o e.msg

\* strings.HasSuffix
HasSuffix(s, suffix) ==
    /\ Len(s) >= Len(suffix)
    /\ SubSeq(s, Len(s) - Len(suffix) + 1, Len(s)) = suffix

\* the test of lines 53 and 90
IsContextCanceled(e) == HasSuffix(ErrorText(e), <<"context", "canceled">>)

\* what stream.Recv / stream.Send return once the stream's context ended with cause c
StreamCtxError(c) ==
    IF c = ctxCanceled THEN StatusError("Canceled", c.msg)
    ELSE StatusError("DeadlineExceeded", c.msg)

(***************************************************************************)
(* Envelopes of the inbound stream and the values they carry.              *)
(***************************************************************************)
StartReqs ==
    { [consumer |-> "c1", topic |-> "orders", offset |-> "OLDEST"],
      [consumer |-> "c1", topic |-> "events", offset |-> "NEWEST"] }

\* a confirmation names a message by an identifier the bridge does not interpret;
\* the n-th envelope of the stream, if a confirmation, carries identifier n
Envelopes(n) ==
    [kind : {"start"}, sr : StartReqs]
        \cup {[kind |-> "confirm", id |-> n]}
        \cup {[kind |-> "empty"]}

NoEnv == [kind |-> "none"]
NoConf == [consumer |-> "", topic |-> "", offset |-> ""]

VARIABLES
    sent,         \* the envelopes the client has put on the stream, in order
    nread,        \* how many of them stream.Recv has returned
    clientClosed, \* the client half-closed the stream: Recv reports io.EOF after the last envelope
    netDown,      \* the transport has failed
    sCtxErr,      \* sCtx.Err()
    scopeDone,    \* ctx.Done() of the group's context is closed
    gerr,         \* the group's recorded error
    firstRet,     \* the task that returned first, "none" while none has
    endedAwaiting, \* the stream's context ended while the session awaited its start request:
                  \* the reader had accepted none and no task had returned
    rpc, rmsg, started, rret,   \* reader: position, envelope in hand, started flag, return value
    rwhy,         \* reader: the place it returned from ("eof", "recvErr", "switch", "ctxDone")
    wpc, wmsg, wret,            \* writer: position, message in hand, return value
    hpc, conf, hret,            \* handler invoker: position, config, return value
    hres,         \* what HandleConsume returned
    taken,        \* the messages the handler sent on forClient (the writer received), in order
    sendCalls,    \* the messages passed to stream.Send, in order
    delivered,    \* the messages stream.Send sent successfully, in order
    hconf,        \* the confirmations the handler received on confirmRequest, in order
    cpc, result   \* Consume: position and return value

\* listenAndServe (main.go) and the gRPC server it runs
VARIABLES
    lpc,          \* listenAndServe: position ("select", "deferStop", "deferClose", "returned")
    lisOpen,      \* the listener lis is open
    serving,      \* grpcServer.Serve(lis) is accepting connections
    sess,         \* the sessions of the server: "none", "active", "finished", "severed"
    sigCh,        \* a signal waits in sigCh
    errCh,        \* what Serve sent on errCh, NoErr while nothing
    lwhy,         \* the case the select took: "none", "signal", "error"
    lresult       \* what listenAndServe returns

serveVars == << lpc, lisOpen, serving, sess, sigCh, errCh, lwhy, lresult >>

vars == << sent, nread, clientClosed, netDown, sCtxErr, endedAwaiting, scopeDone, gerr, firstRet,
           rpc, rmsg, started, rret, rwhy, wpc, wmsg, wret, hpc, conf, hret, hres,
           taken, sendCalls, delivered, hconf, cpc, result, serveVars >>

clientVars == << sent, clientClosed >>
ctxVars == << sCtxErr, endedAwaiting >>
readerVars == << rpc, rmsg, started, rret, rwhy, nread >>
writerVars == << wpc, wmsg, wret, taken, sendCalls, delivered >>
invokerVars == << hpc, conf, hret, hres >>
handlerVars == << hconf >>
consumeVars == << cpc, result >>
groupVars == << scopeDone, gerr, firstRet >>

Init ==
    /\ sent = <<>> /\ nread = 0 /\ clientClosed = FALSE /\ netDown = FALSE
    /\ sCtxErr = NoErr /\ endedAwaiting = FALSE
    /\ scopeDone = FALSE /\ gerr = NoErr /\ firstRet = "none"
    /\ rpc = "recv" /\ rmsg = NoEnv /\ started = FALSE /\ rret = NoErr /\ rwhy = "none"
    /\ wpc = "select" /\ wmsg = 0 /\ wret = NoErr
    /\ hpc = "waitStart" /\ conf = NoConf /\ hret = NoErr /\ hres = NoErr
    /\ taken = <<>> /\ sendCalls = <<>> /\ delivered = <<>> /\ hconf = <<>>
    /\ cpc = "wait" /\ result = NoErr
    /\ lpc = "select" /\ lisOpen = TRUE /\ serving = TRUE
    /\ sess = [i \in 1..MaxSess |-> "none"]
    /\ sigCh = FALSE /\ errCh = NoErr /\ lwhy = "none" /\ lresult = NoErr

(***************************************************************************)
(* The group (gogroup.New, g.Go, g.Wait).  The group's context is derived  *)
(* from the stream's context; the return of any task cancels it, and the   *)
(* first non-nil error a task returns is the one Wait reports.             *)
(***************************************************************************)
\* a group that keeps the last non-nil error returned
GroupRecord_LastError(err) == IF err /= NoErr THEN err ELSE gerr

\* a group that keeps the result of the first task to return, nil or not
GroupRecord_FirstReturn(err) == IF firstRet = "none" THEN err ELSE gerr

GroupRecord(err) == IF gerr = NoErr THEN err ELSE gerr

\* a group that cancels its context only when a task returns a non-nil error
TaskReturn_ErrorOnly(task, err) ==
    /\ scopeDone' = (scopeDone \/ err /= NoErr)
    /\ gerr' = GroupRecord(err)
    /\ firstRet' = IF firstRet = "none" THEN task ELSE firstRet

TaskReturn(task, err) ==
    /\ scopeDone' = TRUE
    /\ gerr' = GroupRecord(err)
    /\ firstRet' = IF firstRet = "none" THEN task ELSE firstRet

(***************************************************************************)
(* The client and the transport.                                           *)
(***************************************************************************)
Live == cpc /= "done"

ClientSend(e) ==
    /\ Live /\ ~clientClosed /\ sCtxErr = NoErr /\ ~netDown
    /\ Len(sent) < MaxEnv
    /\ sent' = Append(sent, e)
    /\ UNCHANGED << clientClosed, netDown, ctxVars, groupVars, readerVars, writerVars, invokerVars, handlerVars, consumeVars >>
    /\ UNCHANGED serveVars

ClientClose ==
    /\ Live /\ ~clientClosed /\ sCtxErr = NoErr /\ ~netDown
    /\ clientClosed' = TRUE
    /\ UNCHANGED << sent, netDown, ctxVars, groupVars, readerVars, writerVars, invokerVars, handlerVars, consumeVars >>
    /\ UNCHANGED serveVars

\* the stream's context ends with cause c
StreamCtxEnd(c) ==
    /\ Live /\ sCtxErr = NoErr
    /\ sCtxErr' = c
    /\ endedAwaiting' = (~started /\ firstRet = "none")
    /\ UNCHANGED << clientVars, netDown, groupVars, readerVars,
                    writerVars, invokerVars, handlerVars, consumeVars >>
    /\ UNCHANGED serveVars

ClientCancel == StreamCtxEnd(ctxCanceled)

DeadlineExpire == StreamCtxEnd(ctxDeadline)

\* line 39: the group's context is a child of the stream's context, and is
\* canceled after it: sCtx.Done() is closed first, then ctx.Done()
ScopePropagate ==
    /\ Live /\ sCtxErr /= NoErr /\ ~scopeDone
    /\ scopeDone' = TRUE
    /\ UNCHANGED << clientVars, netDown, ctxVars, gerr, firstRet, readerVars,
                    writerVars, invokerVars, handlerVars, consumeVars >>
    /\ UNCHANGED serveVars

TransportFail ==
    /\ Live /\ ~netDown /\ sCtxErr = NoErr
    /\ netDown' = TRUE
    /\ UNCHANGED << clientVars, ctxVars, groupVars, readerVars, writerVars, invokerVars, handlerVars, consumeVars >>
    /\ UNCHANGED serveVars

(***************************************************************************)
(* The reader task (lines 45-82).                                          *)
(***************************************************************************)
\* the errors stream.Recv can return in the current state
RecvErrors ==
    (IF clientClosed /\ nread = Len(sent) THEN {EOF} ELSE {})
        \cup (IF sCtxErr /= NoErr THEN {StreamCtxError(sCtxErr)} ELSE {})
        \cup (IF netDown THEN {errTransport} ELSE {})

\* a reader without the test for io.EOF
RecvErrResult_NoEOF(err) == IF IsContextCanceled(err) THEN NoErr ELSE err

\* lines 49-57: what the reader returns for an error of stream.Recv
RecvErrResult(err) ==
    IF err = EOF THEN NoErr
    ELSE IF IsContextCanceled(err) THEN NoErr
    ELSE err

\* a switch that accepts a second start request
DispatchError_NoStartedCheck(msg, st) ==
    CASE msg.kind = "start" -> NoErr
      [] msg.kind = "confirm" -> IF ~st THEN errInvalidConfirm ELSE NoErr
      [] OTHER -> errInvalidRequest

\* a switch that accepts a confirmation before the start request
DispatchError_NoConfirmCheck(msg, st) ==
    CASE msg.kind = "start" -> IF st THEN errStartedTwice ELSE NoErr
      [] msg.kind = "confirm" -> NoErr
      [] OTHER -> errInvalidRequest

\* a switch whose default case returns the error of another case
DispatchError_WrongDefault(msg, st) ==
    CASE msg.kind = "start" -> IF st THEN errStartedTwice ELSE NoErr
      [] msg.kind = "confirm" -> IF ~st THEN errInvalidConfirm ELSE NoErr
      [] OTHER -> errInvalidConfirm

\* lines 58-80: the error the switch returns for envelope msg, NoErr if it goes on
DispatchError(msg, st) ==
    CASE msg.kind = "start" -> IF st THEN errStartedTwice ELSE NoErr
      [] msg.kind = "confirm" -> IF ~st THEN errInvalidConfirm ELSE NoErr
      [] OTHER -> errInvalidRequest

\* a reader that never sets started
NextStarted_Forget(msg, st) == st

\* line 63: started after the switch accepted envelope msg
NextStarted(msg, st) == IF msg.kind = "start" THEN TRUE ELSE st

\* lines 64 and 73: the select the reader enters with an accepted envelope
DispatchSelect(msg) == IF msg.kind = "start" THEN "sendStart" ELSE "sendConfirm"

ReaderReturn(err, why) ==
    /\ rpc' = "done" /\ rret' = err /\ rmsg' = NoEnv /\ rwhy' = why
    /\ TaskReturn("reader", err)

\* line 48, a message arrives
ReaderRecvMsg ==
    /\ rpc = "recv" /\ nread < Len(sent) /\ ~netDown
    /\ rmsg' = sent[nread + 1]
    /\ nread' = nread + 1
    /\ rpc' = "dispatch"
    /\ UNCHANGED << clientVars, netDown, ctxVars, groupVars, started, rret, rwhy,
                    writerVars, invokerVars, handlerVars, consumeVars >>
    /\ UNCHANGED serveVars

\* line 48, Recv fails: lines 49-57
ReaderRecvErr(err) ==
    /\ rpc = "recv" /\ err \in RecvErrors
    /\ ReaderReturn(RecvErrResult(err), IF err = EOF THEN "eof" ELSE "recvErr")
    /\ UNCHANGED << clientVars, netDown, ctxVars, started, nread,
                    writerVars, invokerVars, handlerVars, consumeVars >>
    /\ UNCHANGED serveVars

\* lines 58-63, 69-72, 78-79
ReaderDispatch ==
    /\ rpc = "dispatch"
    /\ IF DispatchError(rmsg, started) /= NoErr
       THEN /\ ReaderReturn(DispatchError(rmsg, started), "switch")
            /\ UNCHANGED started
       ELSE /\ rpc' = DispatchSelect(rmsg)
            /\ started' = NextStarted(rmsg, started)
            /\ UNCHANGED << rmsg, rret, rwhy, groupVars >>
    /\ UNCHANGED << clientVars, netDown, ctxVars, nread,
                    writerVars, invokerVars, handlerVars, consumeVars >>
    /\ UNCHANGED serveVars

\* an invoker that fills the config from the wrong fields
ConfOf_Swapped(sr) == [consumer |-> sr.topic, topic |-> sr.consumer, offset |-> sr.offset]

\* lines 105-107
ConfOf(sr) == [consumer |-> sr.consumer, topic |-> sr.topic, offset |-> sr.offset]

\* a hand-off by a plain send, which does not look at ctx.Done()
StartHandoff_AfterCancel ==
    /\ rpc = "sendStart" /\ hpc = "waitStart"
    /\ conf' = [consumer |-> rmsg.sr.consumer, topic |-> rmsg.sr.topic, offset |-> rmsg.sr.offset]
    /\ hpc' = "running"
    /\ rpc' = "recv" /\ rmsg' = NoEnv
    /\ UNCHANGED << clientVars, netDown, ctxVars, groupVars, started, rret, rwhy, nread,
                    writerVars, hret, hres, handlerVars, consumeVars >>
    /\ UNCHANGED serveVars

\* line 65 with line 104: the start request passes to the handler invoker, which
\* fills conf (lines 105-107) and calls HandleConsume (line 112).  Both sides
\* are selects with a case on ctx.Done(): once that channel is closed a select
\* waiting on it is committed to that case and a select entered with no partner
\* ready takes it, so the two meet only while it is open.
StartHandoff ==
    /\ rpc = "sendStart" /\ hpc = "waitStart" /\ ~scopeDone
    /\ conf' = ConfOf(rmsg.sr)
    /\ hpc' = "running"
    /\ rpc' = "recv" /\ rmsg' = NoEnv
    /\ UNCHANGED << clientVars, netDown, ctxVars, groupVars, started, rret, rwhy, nread,
                    writerVars, hret, hres, handlerVars, consumeVars >>
    /\ UNCHANGED serveVars

\* line 74: the confirmation passes to the handler, which receives on
\* confirmRequest.  The handler may wait in a plain receive, so a reader that
\* enters its select after the cancellation finds both cases ready.
ConfirmHandoff ==
    /\ rpc = "sendConfirm" /\ hpc = "running"
    /\ hconf' = Append(hconf, rmsg.id)
    /\ rpc' = "recv" /\ rmsg' = NoEnv
    /\ UNCHANGED << clientVars, netDown, ctxVars, groupVars, started, rret, rwhy, nread,
                    writerVars, invokerVars, consumeVars >>
    /\ UNCHANGED serveVars

\* lines 66-67 and 75-76
ReaderCtxDone ==
    /\ rpc \in {"sendStart", "sendConfirm"} /\ scopeDone
    /\ ReaderReturn(NoErr, "ctxDone")
    /\ UNCHANGED << clientVars, netDown, ctxVars, started, nread,
                    writerVars, invokerVars, handlerVars, consumeVars >>
    /\ UNCHANGED serveVars

(***************************************************************************)
(* The writer task (lines 84-99).                                          *)
(***************************************************************************)
\* the errors stream.Send can return in the current state
SendErrors ==
    (IF sCtxErr /= NoErr THEN {StreamCtxError(sCtxErr)} ELSE {})
        \cup (IF netDown THEN {errTransport} ELSE {})

\* a writer that takes every error of stream.Send for a cancellation
SendErrResult_Swallow(err) == NoErr

\* lines 89-94: what the writer returns for an error of stream.Send
SendErrResult(err) == IF IsContextCanceled(err) THEN NoErr ELSE err

WriterReturn(err) ==
    /\ wpc' = "done" /\ wret' = err /\ wmsg' = 0
    /\ TaskReturn("writer", err)

\* a writer that receives a message and does not pass it on
WriterTake_Lose ==
    /\ wpc = "select" /\ hpc = "running"
    /\ Len(taken) < MaxMsg
    /\ taken' = Append(taken, Len(taken) + 1)
    /\ UNCHANGED << clientVars, netDown, ctxVars, groupVars, readerVars, wpc, wmsg, wret,
                    sendCalls, delivered, invokerVars, handlerVars, consumeVars >>
    /\ UNCHANGED serveVars

\* line 87: the handler sends its next message on forClient and the writer
\* receives it.  The handler may wait in a plain send, so a writer that enters
\* its select after the cancellation finds both cases ready.
WriterTake ==
    /\ wpc = "select" /\ hpc = "running"
    /\ Len(taken) < MaxMsg
    /\ wmsg' = Len(taken) + 1
    /\ taken' = Append(taken, Len(taken) + 1)
    /\ wpc' = "send"
    /\ UNCHANGED << clientVars, netDown, ctxVars, groupVars, readerVars, wret,
                    sendCalls, delivered, invokerVars, handlerVars, consumeVars >>
    /\ UNCHANGED serveVars

\* line 88, Send succeeds
WriterSendOk ==
    /\ wpc = "send" /\ SendErrors = {}
    /\ sendCalls' = Append(sendCalls, wmsg)
    /\ delivered' = Append(delivered, wmsg)
    /\ wpc' = "select" /\ wmsg' = 0
    /\ UNCHANGED << clientVars, netDown, ctxVars, groupVars, readerVars, wret, taken,
                    invokerVars, handlerVars, consumeVars >>
    /\ UNCHANGED serveVars

\* line 88, Send fails: lines 89-94
WriterSendErr(err) ==
    /\ wpc = "send" /\ err \in SendErrors
    /\ sendCalls' = Append(sendCalls, wmsg)
    /\ WriterReturn(SendErrResult(err))
    /\ UNCHANGED << clientVars, netDown, ctxVars, readerVars, taken, delivered,
                    invokerVars, handlerVars, consumeVars >>
    /\ UNCHANGED serveVars

\* lines 95-96
WriterCtxDone ==
    /\ wpc = "select" /\ scopeDone
    /\ WriterReturn(NoErr)
    /\ UNCHANGED << clientVars, netDown, ctxVars, readerVars, taken, sendCalls, delivered,
                    invokerVars, handlerVars, consumeVars >>
    /\ UNCHANGED serveVars

(***************************************************************************)
(* The handler invoker task (lines 101-113) and the backend handler.       *)
(***************************************************************************)
InvokerReturn(err) ==
    /\ hpc' = "done" /\ hret' = err
    /\ TaskReturn("invoker", err)

\* lines 108-109
InvokerCtxDone ==
    /\ hpc = "waitStart" /\ scopeDone
    /\ InvokerReturn(NoErr)
    /\ UNCHANGED << clientVars, netDown, ctxVars, readerVars, writerVars, conf, hres,
                    handlerVars, consumeVars >>
    /\ UNCHANGED serveVars

\* what HandleConsume may return: nil, a backend failure, or ctx.Err() once canceled
HandlerResults == {NoErr, errBackend} \cup (IF scopeDone THEN {ctxCanceled} ELSE {})

\* a task that swallows the handler's error
InvokerResult_Swallow(err) == NoErr

\* line 112: the task returns what HandleConsume returned
InvokerResult(err) == err

\* line 112: HandleConsume returns
HandlerReturn(err) ==
    /\ hpc = "running" /\ err \in HandlerResults
    /\ hres' = err
    /\ InvokerReturn(InvokerResult(err))
    /\ UNCHANGED << clientVars, netDown, ctxVars, readerVars, writerVars, conf,
                    handlerVars, consumeVars >>
    /\ UNCHANGED serveVars

(***************************************************************************)
(* Consume after the tasks are started (lines 115-122).                    *)
(***************************************************************************)
AllReturned == rpc = "done" /\ wpc = "done" /\ hpc = "done"

\* a Consume that goes on as soon as one task has returned
Wait_Early ==
    /\ cpc = "wait" /\ firstRet /= "none"
    /\ IF gerr /= NoErr
       THEN cpc' = "done" /\ result' = gerr
       ELSE cpc' = "ctxErr" /\ UNCHANGED result
    /\ UNCHANGED << clientVars, netDown, ctxVars, groupVars, readerVars, writerVars,
                    invokerVars, handlerVars >>
    /\ UNCHANGED serveVars

\* lines 115-117
Wait ==
    /\ cpc = "wait" /\ AllReturned
    /\ IF gerr /= NoErr
       THEN cpc' = "done" /\ result' = gerr
       ELSE cpc' = "ctxErr" /\ UNCHANGED result
    /\ UNCHANGED << clientVars, netDown, ctxVars, groupVars, readerVars, writerVars,
                    invokerVars, handlerVars >>
    /\ UNCHANGED serveVars

\* a Consume that takes any error of the context for a cancellation
IsCanceled_AnyError(err) == err /= NoErr

\* line 119: err == context.Canceled
IsCanceled(err) == err = ctxCanceled

\* a Consume that returns the context's error unconverted
CanceledStatus_Raw(err) == err

\* line 120: status.Error(codes.Canceled, err.Error())
CanceledStatus(err) == StatusError("Canceled", ErrorText(err))

\* lines 119-121
CheckCanceled ==
    /\ cpc = "ctxErr"
    /\ IF IsCanceled(sCtxErr)
       THEN cpc' = "done" /\ result' = CanceledStatus(sCtxErr)
       ELSE cpc' = "return" /\ UNCHANGED result
    /\ UNCHANGED << clientVars, netDown, ctxVars, groupVars, readerVars, writerVars,
                    invokerVars, handlerVars >>
    /\ UNCHANGED serveVars

\* a Consume that ends with "return nil"
ReturnCtxErr_Nil ==
    /\ cpc = "return"
    /\ cpc' = "done" /\ result' = NoErr
    /\ UNCHANGED << clientVars, netDown, ctxVars, groupVars, readerVars, writerVars,
                    invokerVars, handlerVars >>
    /\ UNCHANGED serveVars

\* line 122
ReturnCtxErr ==
    /\ cpc = "return"
    /\ cpc' = "done" /\ result' = sCtxErr
    /\ UNCHANGED << clientVars, netDown, ctxVars, groupVars, readerVars, writerVars,
                    invokerVars, handlerVars >>
    /\ UNCHANGED serveVars

Done == cpc = "done"

AllErrors ==
    {EOF, errTransport, StreamCtxError(ctxCanceled), StreamCtxError(ctxDeadline),
     errBackend, ctxCanceled, NoErr}

Next ==
    \/ \E e \in Envelopes(Len(sent) + 1) : ClientSend(e)
    \/ ClientClose
    \/ ClientCancel
    \/ DeadlineExpire
    \/ TransportFail
    \/ ScopePropagate
    \/ ReaderRecvMsg
    \/ \E err \in AllErrors : ReaderRecvErr(err)
    \/ ReaderDispatch
    \/ StartHandoff
    \/ ConfirmHandoff
    \/ ReaderCtxDone
    \/ WriterTake
    \/ WriterSendOk
    \/ \E err \in AllErrors : WriterSendErr(err)
    \/ WriterCtxDone
    \/ InvokerCtxDone
    \/ \E err \in AllErrors : HandlerReturn(err)
    \/ Wait
    \/ CheckCanceled
    \/ ReturnCtxErr

Spec == Init /\ [][Next]_vars

TypeOK ==
    /\ nread \in 0..Len(sent) /\ Len(sent) <= MaxEnv
    /\ rpc \in {"recv", "dispatch", "sendStart", "sendConfirm", "done"}
    /\ wpc \in {"select", "send", "done"}
    /\ hpc \in {"waitStart", "running", "done"}
    /\ cpc \in {"wait", "ctxErr", "return", "done"}
    /\ lpc \in {"select", "deferStop", "deferClose", "returned"}
    /\ \A i \in 1..MaxSess : sess[i] \in {"none", "active", "finished", "severed"}

(***************************************************************************)
(* listenAndServe (main.go, lines 186-218): the listener, the gRPC server  *)
(* with its sessions, and the select on errCh and sigCh.  The two deferred *)
(* calls run in reverse order when the function returns: grpcServer.Stop() *)
(* first, lis.Close() second.                                              *)
(***************************************************************************)
bridgeVars == << clientVars, netDown, ctxVars, groupVars, readerVars, writerVars,
                 invokerVars, handlerVars, consumeVars >>

\* an error of grpcServer.Serve
errServe == [code |-> "raw", msg |-> <<"accept", "failed">>]

\* errors.Wrap(err, message)
Wrap(err, message) == [code |-> "raw", msg |-> message \o <<":">> \o ErrorText(err)]

\* Serve accepts a connection and starts a session on it
Accept(i) ==
    /\ serving /\ lisOpen /\ sess[i] = "none"
    /\ sess' = [sess EXCEPT ![i] = "active"]
    /\ UNCHANGED << lpc, lisOpen, serving, sigCh, errCh, lwhy, lresult, bridgeVars >>

\* a session comes to its end by itself: its Consume or Publish call returns
SessionEnd(i) ==
    /\ sess[i] = "active"
    /\ sess' = [sess EXCEPT ![i] = "finished"]
    /\ UNCHANGED << lpc, lisOpen, serving, sigCh, errCh, lwhy, lresult, bridgeVars >>

\* line 210: an interrupt or SIGTERM arrives; sigCh holds one signal
Signal ==
    /\ lpc = "select" /\ ~sigCh
    /\ sigCh' = TRUE
    /\ UNCHANGED << lpc, lisOpen, serving, sess, errCh, lwhy, lresult, bridgeVars >>

\* line 212: Serve returns an error, which the goroutine sends on errCh
ServeFail ==
    /\ lpc = "select" /\ serving /\ errCh = NoErr
    /\ serving' = FALSE
    /\ errCh' = errServe
    /\ UNCHANGED << lpc, lisOpen, sess, sigCh, lwhy, lresult, bridgeVars >>

\* lines 214-215
SelectErr ==
    /\ lpc = "select" /\ errCh /= NoErr
    /\ lresult' = Wrap(errCh, <<"failed", "to", "serve", "grpc">>)
    /\ lwhy' = "error"
    /\ lpc' = "deferStop"
    /\ UNCHANGED << lisOpen, serving, sess, sigCh, errCh, bridgeVars >>

\* lines 216-217
SelectSig ==
    /\ lpc = "select" /\ sigCh
    /\ lresult' = NoErr
    /\ lwhy' = "signal"
    /\ lpc' = "deferStop"
    /\ UNCHANGED << lisOpen, serving, sess, sigCh, errCh, bridgeVars >>

\* grpcServer.Stop(): it closes every open connection and cancels the RPCs on them
StopSessions(q) == [i \in DOMAIN q |-> IF q[i] = "active" THEN "severed" ELSE q[i]]

\* line 199: defer grpcServer.Stop(), which also closes the listeners
DeferStop ==
    /\ lpc = "deferStop"
    /\ serving' = FALSE /\ lisOpen' = FALSE
    /\ sess' = StopSessions(sess)
    /\ lpc' = "deferClose"
    /\ UNCHANGED << sigCh, errCh, lwhy, lresult, bridgeVars >>

\* line 191: defer lis.Close()
DeferClose ==
    /\ lpc = "deferClose"
    /\ lisOpen' = FALSE
    /\ lpc' = "returned"
    /\ UNCHANGED << serving, sess, sigCh, errCh, lwhy, lresult, bridgeVars >>

ServeNext ==
    \/ \E i \in 1..MaxSess : Accept(i)
    \/ \E i \in 1..MaxSess : SessionEnd(i)
    \/ Signal
    \/ ServeFail
    \/ SelectErr
    \/ SelectSig
    \/ DeferStop
    \/ DeferClose

SpecServe == Init /\ [][ServeNext]_vars

(***************************************************************************)
(* The steps the server takes without the client: every step of the three  *)
(* tasks, of the handler and of Consume.                                   *)
(***************************************************************************)
ServerNext ==
    \/ ScopePropagate
    \/ ReaderRecvMsg
    \/ \E err \in AllErrors : ReaderRecvErr(err)
    \/ ReaderDispatch
    \/ StartHandoff
    \/ ConfirmHandoff
    \/ ReaderCtxDone
    \/ WriterTake
    \/ WriterSendOk
    \/ \E err \in AllErrors : WriterSendErr(err)
    \/ WriterCtxDone
    \/ InvokerCtxDone
    \/ \E err \in AllErrors : HandlerReturn(err)
    \/ Wait
    \/ CheckCanceled
    \/ ReturnCtxErr

\* the session is over, or the server can still take a step towards its end
\* without any further input of the client
Progress == Done \/ ENABLED ServerNext

\* the envelope the reader has finished with: Recv returned it and the switch ran
Handled(j) == j \in 1..nread /\ ~(rpc = "dispatch" /\ j = nread)

StartBefore(j) == \E i \in 1..(j - 1) : sent[i].kind = "start"

\* the non-nil errors the tasks have returned
TaskErrors == {rret, wret, hret} \ {NoErr}

\* the status error with code Canceled and description "context canceled"
CanceledError == [code |-> "Canceled", msg |-> <<"context", "canceled">>]

----------------------------------------------------------------------------
----------------------------------------------------------------------------
\* C2: a Confirmation received before any StartRequest makes the reader return
\* errInvalidConfirm; the confirmation does not reach the handler,
\* HandleConsume is never called, and the session comes to its end (the tasks
\* return and Consume returns without any further input of the client).
C2_ConfirmBeforeStart ==
    \A j \in 1..Len(sent) :
        (Handled(j) /\ sent[j].kind = "confirm" /\ ~StartBefore(j)) =>
            /\ rpc = "done" /\ rret = errInvalidConfirm /\ nread = j
            /\ hconf = <<>>
            /\ hpc /= "running" /\ conf = NoConf /\ hret = NoErr
            /\ Progress

C2_Witness ==
    /\ Done /\ rret = errInvalidConfirm /\ sent[1].kind = "confirm"
    /\ conf = NoConf /\ result = errInvalidConfirm

----------------------------------------------------------------------------
----------------------------------------------------------------------------
\* C4 (as claimed): if the stream's context is canceled while no StartRequest
\* has been accepted, HandleConsume is never called and Consume comes to its
\* end with a Canceled status.
C4_AsClaimed ==
    (sCtxErr = ctxCanceled /\ endedAwaiting) =>
        /\ conf = NoConf
        /\ Progress
        /\ Done => result.code = "Canceled"

\* C4 (amended): if the stream's context is canceled while no StartRequest has
\* been accepted, Consume comes to its end; it returns the Canceled status, or
\* a non-nil error that a task returned (the reader for an envelope or a
\* transport failure it still received, or the handler), and the Canceled
\* status if no task returned one; HandleConsume is called only if the reader
\* still accepts a StartRequest after the cancellation and hands it over
\* before the group's context is canceled in turn.
C4_CancelAwaiting ==
    (sCtxErr = ctxCanceled /\ endedAwaiting) =>
        /\ Progress
        /\ ~started => conf = NoConf
        /\ (\A i \in 1..Len(sent) : sent[i].kind /= "start") => conf = NoConf
        /\ Done => result \in {CanceledError} \cup TaskErrors
        /\ (Done /\ TaskErrors = {}) => result = CanceledError

C4_Witness ==
    /\ sCtxErr = ctxCanceled /\ endedAwaiting /\ Done
    /\ conf = NoConf /\ result.code = "Canceled" /\ rwhy = "recvErr"

----------------------------------------------------------------------------
IsPrefix(a, b) == Len(a) <= Len(b) /\ SubSeq(b, 1, Len(a)) = a

NoDuplicates(q) == \A i, j \in 1..Len(q) : i /= j => q[i] /= q[j]

\* C5: the messages passed to stream.Send are, in order and without
\* duplicates, a prefix of the messages the handler sent on forClient; the one
\* message that may be missing is the one the writer holds and passes next;
\* and while the stream is healthy every message passed to Send was sent.
C5_WriterOrder ==
    /\ IsPrefix(sendCalls, taken)
    /\ NoDuplicates(sendCalls)
    /\ wpc /= "send" => sendCalls = taken
    /\ wpc = "send" => taken = Append(sendCalls, wmsg)
    /\ IsPrefix(delivered, sendCalls)
    /\ (sCtxErr = NoErr /\ ~netDown) => delivered = sendCalls

C5_Witness ==
    /\ sendCalls = <<1, 2>> /\ delivered = <<1, 2>> /\ Len(hconf) >= 1
    /\ wpc = "select"

----------------------------------------------------------------------------
----------------------------------------------------------------------------
----------------------------------------------------------------------------
\* C8: once HandleConsume has returned a non-nil error the scope is canceled,
\* and the session comes to its end without any further input of the client:
\* Consume has returned, or a task or Consume can take its next step.
C8_AsClaimed == hres /= NoErr => (scopeDone /\ Progress)

----------------------------------------------------------------------------
\* the identifiers of the confirmations the client sent, in order
ConfirmIds(q) ==
    LET F[i \in 0..Len(q)] ==
            IF i = 0 THEN <<>>
            ELSE IF q[i].kind = "confirm" THEN Append(F[i - 1], q[i].id) ELSE F[i - 1]
    IN F[Len(q)]

\* one StartRequest, then one Confirmation for each of k messages of the
\* handler, then a clean close; nothing fails and the context stays live
Scenario(k) ==
    /\ Len(sent) = k + 1 /\ sent[1].kind = "start"
    /\ \A i \in 2..(k + 1) : sent[i].kind = "confirm"
    /\ clientClosed /\ Len(taken) = k
    /\ sCtxErr = NoErr /\ ~netDown

ScenarioOutcome(k) ==
    /\ Len(sendCalls) = k /\ delivered = taken
    /\ hconf = ConfirmIds(sent) /\ Len(hconf) = k
    /\ result = NoErr

----------------------------------------------------------------------------
ProtocolViolations == {errStartedTwice, errInvalidConfirm, errInvalidRequest}

NoViolationNoBackendFailure == rret \notin ProtocolViolations /\ hret = NoErr

\* C10 (as claimed): whenever the stream's context has ended, by cancellation
\* or by its deadline, and no task reported a protocol violation or a backend
\* failure, Consume returns a Canceled status.
C10_AsClaimed ==
    (Done /\ sCtxErr /= NoErr /\ NoViolationNoBackendFailure) => result.code = "Canceled"

\* C10 (amended): when the stream's context has ended and no task reported a
\* protocol violation or a backend failure, Consume returns, after a
\* cancellation, the Canceled status (context.Canceled as it is if the
\* cancellation falls between the two reads of sCtx.Err()), and after the
\* deadline context.DeadlineExceeded as it is, never a Canceled status; or it
\* returns the error of a failed Recv or Send that a task returned (a transport
\* failure, or the DeadlineExceeded error of the stream).
C10_ContextEnd ==
    (Done /\ sCtxErr /= NoErr /\ NoViolationNoBackendFailure) =>
        /\ TaskErrors \subseteq {errTransport, StreamCtxError(ctxDeadline)}
        /\ sCtxErr = ctxCanceled =>
              result \in {CanceledError, ctxCanceled} \cup TaskErrors
        /\ sCtxErr = ctxDeadline =>
              /\ result \in {ctxDeadline} \cup TaskErrors
              /\ result.code /= "Canceled"
        /\ TaskErrors = {} => result \in {CanceledError, ctxCanceled, ctxDeadline}

C10_Witness ==
    /\ Done /\ sCtxErr = ctxDeadline /\ NoViolationNoBackendFailure
    /\ started /\ result = ctxDeadline

----------------------------------------------------------------------------
\* C11: when listenAndServe has taken the signal case, it accepts no new
\* connection and returns nil, and the shutdown has severed no session: every
\* session that was in flight is still running or came to its end by itself.
C11_AsClaimed ==
    (lwhy = "signal" /\ lpc = "returned") =>
        /\ lresult = NoErr
        /\ ~serving /\ ~lisOpen
        /\ \A i \in 1..MaxSess : sess[i] /= "severed"

----------------------------------------------------------------------------
----------------------------------------------------------------------------
----------------------------------------------------------------------------
\* C14: once HandleConsume has returned nil in an active session whose
\* stream context has not ended, the session comes to its end with no further
\* input of the client (Consume has returned, or a task or Consume can take
\* its next step), and Consume returns nil.
C14_AsClaimed ==
    (hpc = "done" /\ conf /= NoConf /\ hres = NoErr /\ sCtxErr = NoErr /\ ~netDown) =>
        /\ Progress
        /\ Done => result = NoErr

----------------------------------------------------------------------------
\* C15: Consume goes on after g.Wait only when all three tasks have returned;
\* if the group reported a non-nil error Consume returns exactly that error;
\* otherwise, if the error of the stream's context is context.Canceled when
\* line 119 reads it, Consume returns the Canceled status; otherwise it
\* returns the error of the stream's context as line 122 reads it, which is
\* nil when the context is still live.
C15_ReturnValue ==
    /\ [](cpc /= "wait" => AllReturned)
    /\ []((Done /\ gerr = NoErr /\ sCtxErr = NoErr) => result = NoErr)
    /\ [][/\ (cpc = "wait" /\ cpc' /= "wait") =>
               IF gerr /= NoErr THEN cpc' = "done" /\ result' = gerr
                                ELSE cpc' = "ctxErr" /\ result' = result
          /\ (cpc = "ctxErr" /\ cpc' /= "ctxErr") =>
               IF sCtxErr = ctxCanceled THEN cpc' = "done" /\ result' = CanceledError
                                        ELSE cpc' = "return" /\ result' = result
          /\ (cpc = "return" /\ cpc' /= "return") =>
               (cpc' = "done" /\ result' = sCtxErr)
          /\ cpc = "done" => (cpc' = "done" /\ result' = result)]_vars

C15_Witness ==
    /\ Done /\ AllReturned /\ gerr = NoErr /\ TaskErrors = {}
    /\ sCtxErr = ctxCanceled /\ result = CanceledError /\ started /\ rwhy = "ctxDone"

----------------------------------------------------------------------------
\* C16: if any of the three tasks returned a non-nil error, Consume returns a
\* non-nil error that a task returned: never nil, and never the Canceled
\* status that Consume makes of the context's cancellation, whether another
\* task returned nil or observed the cancellation before or after it.
C16_GenuineError ==
    /\ TaskErrors /= {} => gerr \in TaskErrors
    /\ (Done /\ TaskErrors /= {}) =>
          /\ result \in TaskErrors
          /\ result /= NoErr
          /\ result /= CanceledError

C16_Witness ==
    /\ Done /\ sCtxErr = ctxCanceled /\ firstRet = "invoker" /\ hret = NoErr /\ wret = NoErr
    /\ rret = errInvalidRequest /\ result = errInvalidRequest

----------------------------------------------------------------------------
\* the tasks in the order they are spawned (lines 45, 84, 101)
Tasks == <<"reader", "writer", "invoker">>

\* the value a task returned, nil while it has not returned
RetOf(t) == CASE t = "reader" -> rret [] t = "writer" -> wret [] OTHER -> hret

FailedTasks == {i \in 1..3 : RetOf(Tasks[i]) /= NoErr}

\* the error of the earliest-spawned task among those that failed
SpawnOrderError == RetOf(Tasks[CHOOSE i \in FailedTasks : \A j \in FailedTasks : i <= j])

----------------------------------------------------------------------------
\* C18: the start request is sent on startRequest at most once (the reader
\* enters the select of line 64 at most once, and leaves it by the hand-off
\* only with no config set yet) and received at most once (the config, once
\* set, never changes); HandleConsume is called at most once, only after that
\* receipt, and its config has the consumer, topic and offset of the accepted
\* StartRequest, the first envelope of the stream.
C18_HandshakeOnce ==
    /\ [](conf /= NoConf =>
            /\ started /\ sent[1].kind = "start"
            /\ conf.consumer = sent[1].sr.consumer
            /\ conf.topic = sent[1].sr.topic
            /\ conf.offset = sent[1].sr.offset)
    /\ []((hpc = "running" \/ hres /= NoErr) => conf /= NoConf)
    /\ [][/\ conf /= NoConf => conf' = conf
          /\ (started /\ rpc /= "sendStart") => rpc' /= "sendStart"
          /\ (rpc = "sendStart" /\ rpc' = "recv") =>
                (conf = NoConf /\ conf' /= NoConf /\ hpc = "waitStart" /\ hpc' = "running")
          /\ hpc' = "running" => (hpc = "running" \/ (hpc = "waitStart" /\ conf = NoConf))
          /\ hpc = "done" => hpc' = "done"]_vars

C18_Witness ==
    /\ Done /\ conf.topic = "events" /\ conf.offset = "NEWEST" /\ conf.consumer = "c1"
    /\ hres = NoErr /\ Len(sent) = 3 /\ sent[3].kind = "start" /\ nread = 3

----------------------------------------------------------------------------
\* a call of stream.Send failed: the writer passed a message that was not sent
SendFailed == Len(sendCalls) > Len(delivered)

\* the errors of stream.Recv and stream.Send that are neither io.EOF nor a
\* cancellation of the context
StreamFailures == {errTransport, StreamCtxError(ctxDeadline)}

\* the errors of that kind that the reader and the writer returned
StreamFailuresReturned ==
    ((IF rwhy = "recvErr" THEN {rret} ELSE {}) \cup {wret}) \ {NoErr}

----------------------------------------------------------------------------
\* the confirmations stream.Recv has returned to the reader, in order
ConfirmsRead == ConfirmIds(SubSeq(sent, 1, nread))

\* the confirmation the reader holds, if any
ConfirmHeld == IF rmsg.kind = "confirm" THEN <<rmsg.id>> ELSE <<>>

\* C20: Consume returns only after the reader, the writer and the handler
\* invoker have returned; at every moment at most one message has left the
\* handler on forClient without having been passed to stream.Send, the one
\* the writer holds; and at most one confirmation that the reader received
\* has not reached the handler, the one the reader holds while it runs.
C20_Rendezvous ==
    /\ Done => AllReturned
    /\ Len(taken) - Len(sendCalls) \in {0, 1}
    /\ Len(taken) - Len(sendCalls) = 1 <=> wpc = "send"
    /\ wpc = "send" => wmsg = taken[Len(taken)]
    /\ IsPrefix(hconf, ConfirmsRead)
    /\ Len(ConfirmsRead) - Len(hconf) \in {0, 1}
    /\ rpc /= "done" => ConfirmsRead = hconf \o ConfirmHeld

C20_Witness ==
    /\ wpc = "send" /\ Len(taken) = 2 /\ Len(sendCalls) = 1
    /\ rpc = "sendConfirm" /\ hconf = <<>> /\ ConfirmHeld = <<2>>

====
